---- MODULE Spec2Model ----
(***************************************************************************)
(* A model of the tlc5940 driver crate: the TLC5940 driver struct          *)
(* (src/lib.rs), its three connectors (src/connectors.rs) and the          *)
(* Unconnected pin (src/unconnected.rs).                                   *)
(*                                                                         *)
(* Every action is one call of a public method.  The hardware (pins, SPI)  *)
(* is an external capability: each call of a pin or SPI method either      *)
(* succeeds or fails, and the input `fault` of an operation names the      *)
(* position of the first hardware call that fails (0 = none fails).        *)
(* `events` is the trace of hardware calls made by the last operation.     *)
(***************************************************************************)
EXTENDS Integers, Sequences, FiniteSets, TLC

\* ---------------------------------------------------------------- bounds
\* longest byte slice handed directly to Connector::write_raw
MaxLen == 2
\* largest `displays` argument of from_spi / from_spi_cs
MaxChips == 2
\* hardware faults tried: the first failing call is one of the first MaxFault
\* calls of an operation, or its last call
MaxFault == 4

\* ------------------------------------------------------ program constants
\* number of outputs of the chip (length of both channel arrays)
NumOutputs == 16
\* the mask of set_level, 0x0fff
LevelMask == 4095
\* length of the `packed` array of update / set_dot_correction
PackedLen == 6

\* ----------------------------------------------------------- input sets
Channels == 0 .. (NumOutputs - 1)
\* the `output: u8` arguments tried: both ends of the valid range, the
\* first invalid index and the largest u8
OutputArgs == {0, NumOutputs - 1, NumOutputs, 255}
\* the `level: u16` arguments tried (0x1000 = 4096, 0xABCD = 43981)
LevelArgs == {0, 4095, 4096, 43981, 65535}
\* the `levels: [u16; 16]` arguments tried
LevelsArgs ==
    { [i \in Channels |-> i * 273],
      [i \in Channels |-> 4095 - i],
      [i \in Channels |-> 65535 - (i * 4096)] }
\* the bytes a slice handed to write_raw is built of (0xB2 = 178)
ByteArgs == {0, 178, 255}

RECURSIVE SeqsUpTo(_, _)
SeqsUpTo(S, n) ==
    IF n = 0 THEN { <<>> }
    ELSE LET shorter == SeqsUpTo(S, n - 1)
         IN shorter \cup { Append(s, x) : s \in { t \in shorter : Len(t) = n - 1 }, x \in S }

DataArgs == SeqsUpTo(ByteArgs, MaxLen)

VARIABLES
    connector,            \* which Connector the driver owns: "Pin", "Spi", "SpiSW"
    devices,              \* SpiConnector.devices (1 for the PinConnector)
    blank_pin,            \* the BLANK type: "Real" or "Unconnected"
    dot_correction,       \* TLC5940.dot_correction
    grayscale_values,     \* TLC5940.grayscale_values
    call,                 \* the last operation called, with its arguments
    result,               \* what that operation returned ("Panic": it did not return)
    events,               \* the hardware calls that operation made, in order
    sent,                 \* the slices that operation handed to Connector::write_raw
    write_result,         \* what Connector::write_raw returned to it ("None": not called)
    old_grayscale_values, \* grayscale_values before that operation
    old_dot_correction,   \* dot_correction before that operation
    last_level            \* per output, the `level` of the latest set_level call
                          \* on it that returned Ok (0: there was none)

vars == << connector, devices, blank_pin, dot_correction, grayscale_values,
           call, result, events, sent, write_result,
           old_grayscale_values, old_dot_correction, last_level >>

\* ------------------------------------------------------------- helpers

\* the & operator on unsigned integers
RECURSIVE BitAnd(_, _)
BitAnd(a, b) ==
    IF a = 0 \/ b = 0 THEN 0
    ELSE ((a % 2) * (b % 2)) + 2 * BitAnd(a \div 2, b \div 2)

\* one call of a hardware method, with what it returned
HwCall(dev, op, data, res) == [dev |-> dev, op |-> op, data |-> data, res |-> res]

\* OutputPin::set_low / set_high of the blank pin: Unconnected always
\* returns Err(Error::NotConnected), a real pin fails when the hardware does
blank_pin_set(kind, op, fails) ==
    HwCall("blank", op, <<>>,
           IF kind = "Unconnected" THEN "NotConnected"
           ELSE IF fails THEN "Err" ELSE "Ok")

\* ---------------------------------------------------------- connectors

\* the hardware calls of one iteration of the inner loop of
\* PinConnector::write_raw, in order, as (dev, op) pairs
write_bit_lsb(value, i) ==
    << << "data", IF BitAnd(value, 2 ^ i) > 0 THEN "set_high" ELSE "set_low" >>,
       << "sck", "set_high" >>,
       << "sck", "set_low" >> >>

write_bit(value, i) ==
    << << "data", IF BitAnd(value, 2 ^ (7 - i)) > 0 THEN "set_high" ELSE "set_low" >>,
       << "sck", "set_high" >>,
       << "sck", "set_low" >> >>

\* the inner loop, for i in 0..8
RECURSIVE write_bits_from(_, _)
write_bits_from(value, i) ==
    IF i >= 8 THEN <<>>
    ELSE write_bit(value, i) \o write_bits_from(value, i + 1)

\* the outer loop, for value in data
RECURSIVE write_bytes(_)
write_bytes(data) ==
    IF data = <<>> THEN <<>>
    ELSE write_bits_from(Head(data), 0) \o write_bytes(Tail(data))

\* all hardware calls PinConnector::write_raw makes when none fails
pin_calls(data) ==
    << << "cs", "set_low" >> >> \o write_bytes(data) \o << << "cs", "set_high" >> >>

run_calls_noabort(calls, fault) ==
    [k \in 1 .. Len(calls) |->
        HwCall(calls[k][1], calls[k][2], <<>>,
               IF k = fault THEN "Err" ELSE "Ok")]

\* a sequence of (dev, op) pairs run with `?` after each: the calls up to and
\* including the first failing one (number `fault`), or all of them
run_calls(calls, fault) ==
    LET n == IF fault = 0 \/ fault > Len(calls) THEN Len(calls) ELSE fault
    IN [k \in 1 .. n |->
          HwCall(calls[k][1], calls[k][2], <<>>,
                 IF k = fault THEN "Err" ELSE "Ok")]

PinConnector_write_raw(data, fault) ==
    LET calls == pin_calls(data)
    IN [events |-> run_calls(calls, fault),
        result |-> IF fault = 0 \/ fault > Len(calls) THEN "Ok" ELSE "Pin"]

SpiConnector_write_raw_bytewise(data, fault) ==
    [events |-> [k \in 1 .. Len(data) |->
                    HwCall("spi", "write", << data[k] >>, IF fault = 1 THEN "Err" ELSE "Ok")],
     result |-> IF fault = 1 THEN "Spi" ELSE "Ok"]

\* fault = 1: the call of spi.write fails
SpiConnector_write_raw(data, fault) ==
    [events |-> << HwCall("spi", "write", data, IF fault = 1 THEN "Err" ELSE "Ok") >>,
     result |-> IF fault = 1 THEN "Spi" ELSE "Ok"]

SpiConnectorSW_write_raw_unchecked_cs(data, fault) ==
    LET low  == HwCall("cs", "set_low", <<>>, IF fault = 1 THEN "Err" ELSE "Ok")
        spi  == SpiConnector_write_raw(data, IF fault = 2 THEN 1 ELSE 0)
        high == HwCall("cs", "set_high", <<>>, IF fault = 3 THEN "Err" ELSE "Ok")
    IN IF spi.result # "Ok" THEN [events |-> << low >> \o spi.events, result |-> "Spi"]
       ELSE IF fault = 3 THEN [events |-> << low >> \o spi.events \o << high >>, result |-> "Pin"]
       ELSE [events |-> << low >> \o spi.events \o << high >>, result |-> "Ok"]

SpiConnectorSW_write_raw_restore_cs(data, fault) ==
    LET low  == HwCall("cs", "set_low", <<>>, IF fault = 1 THEN "Err" ELSE "Ok")
        spi  == SpiConnector_write_raw(data, IF fault = 2 THEN 1 ELSE 0)
        high == HwCall("cs", "set_high", <<>>, IF fault = 3 THEN "Err" ELSE "Ok")
    IN IF fault = 1 THEN [events |-> << low >>, result |-> "Pin"]
       ELSE IF spi.result # "Ok"
            THEN [events |-> << low >> \o spi.events \o << high >>, result |-> "Spi"]
       ELSE IF fault = 3 THEN [events |-> << low >> \o spi.events \o << high >>, result |-> "Pin"]
       ELSE [events |-> << low >> \o spi.events \o << high >>, result |-> "Ok"]

\* fault = 1: cs.set_low fails, 2: spi.write fails, 3: cs.set_high fails
SpiConnectorSW_write_raw(data, fault) ==
    LET low  == HwCall("cs", "set_low", <<>>, IF fault = 1 THEN "Err" ELSE "Ok")
        spi  == SpiConnector_write_raw(data, IF fault = 2 THEN 1 ELSE 0)
        high == HwCall("cs", "set_high", <<>>, IF fault = 3 THEN "Err" ELSE "Ok")
    IN IF fault = 1 THEN [events |-> << low >>, result |-> "Pin"]
       ELSE IF spi.result # "Ok" THEN [events |-> << low >> \o spi.events, result |-> "Spi"]
       ELSE IF fault = 3 THEN [events |-> << low >> \o spi.events \o << high >>, result |-> "Pin"]
       ELSE [events |-> << low >> \o spi.events \o << high >>, result |-> "Ok"]

\* Connector::write_raw of the connector the driver was built with
write_raw(kind, data, fault) ==
    IF kind = "Pin" THEN PinConnector_write_raw(data, fault)
    ELSE IF kind = "Spi" THEN SpiConnector_write_raw(data, fault)
    ELSE SpiConnectorSW_write_raw(data, fault)

\* the number of hardware calls write_raw makes when none fails
NumCalls(kind, data) ==
    IF kind = "Pin" THEN 2 + (24 * Len(data))
    ELSE IF kind = "Spi" THEN 1
    ELSE 3

\* the `fault` inputs tried for an operation that sends `data`
FaultArgs(kind, data) ==
    LET n == NumCalls(kind, data)
    IN { f \in 0 .. MaxFault : f <= n } \cup { n }

\* the `fault` inputs tried for a direct call of write_raw: those of
\* FaultArgs and every seventh call, which walks through the data write, the
\* clock rise and the clock fall of different bits and bytes
ConnFaultArgs(kind, data) ==
    FaultArgs(kind, data) \cup { f \in 1 .. NumCalls(kind, data) : f % 7 = 0 }

\* -------------------------------------------------------------- driver

set_level_nomask(gray, output, level) ==
    IF output >= NumOutputs
    THEN [gray |-> gray, result |-> "OutOfRange"]
    ELSE [gray |-> [gray EXCEPT ![output] = level], result |-> "Ok"]

set_level_offbyone(gray, output, level) ==
    IF output > NumOutputs
    THEN [gray |-> gray, result |-> "OutOfRange"]
    ELSE [gray |-> [gray EXCEPT ![output] = BitAnd(level, LevelMask)], result |-> "Ok"]

set_level_clears(gray, output, level) ==
    IF output >= NumOutputs
    THEN [gray |-> gray, result |-> "OutOfRange"]
    ELSE [gray |-> [i \in Channels |-> IF i = output THEN BitAnd(level, LevelMask) ELSE 0],
          result |-> "Ok"]

set_level(gray, output, level) ==
    IF output >= NumOutputs
    THEN [gray |-> gray, result |-> "OutOfRange"]
    ELSE [gray |-> [gray EXCEPT ![output] = BitAnd(level, LevelMask)], result |-> "Ok"]

\* the loop of set_levels from index idx on; `idx as u8` is idx % 256
RECURSIVE set_levels_from(_, _, _)
set_levels_from(gray, levels, idx) ==
    IF idx >= NumOutputs THEN [gray |-> gray, result |-> "Ok"]
    ELSE LET r == set_level(gray, idx % 256, levels[idx])
         IN IF r.result # "Ok" THEN r
            ELSE set_levels_from(r.gray, levels, idx + 1)

set_levels_skipfirst(gray, levels) == set_levels_from(gray, levels, 1)

set_levels(gray, levels) == set_levels_from(gray, levels, 0)

blank_inverted(kind, is_blank, fails) ==
    [events |-> << blank_pin_set(kind, IF is_blank THEN "set_low" ELSE "set_high", fails) >>,
     result |-> "Ok"]

\* the Result of set_high / set_low is dropped; blank returns Ok(())
blank(kind, is_blank, fails) ==
    [events |-> << blank_pin_set(kind, IF is_blank THEN "set_high" ELSE "set_low", fails) >>,
     result |-> "Ok"]

\* let mut packed = [0_u8; 6]
packed == [k \in 1 .. PackedLen |-> 0]

\* update: write_raw(&packed), its Result dropped, then todo!()
update(kind, fault) ==
    LET w == write_raw(kind, packed, fault)
    IN [events |-> w.events, sent |-> << packed >>,
        write_result |-> w.result, result |-> "Panic"]

\* set_dot_correction: the same body as update
set_dot_correction(kind, fault) ==
    LET w == write_raw(kind, packed, fault)
    IN [events |-> w.events, sent |-> << packed >>,
        write_result |-> w.result, result |-> "Panic"]

\* ---------------------------------------------------------------- Init

Init_full ==
    /\ connector \in {"Pin", "Spi", "SpiSW"}
    /\ devices \in 1 .. MaxChips
    /\ (connector = "Pin" => devices = 1)
    /\ blank_pin \in {"Real", "Unconnected"}
    /\ dot_correction = [i \in Channels |-> 63]
    /\ grayscale_values = [i \in Channels |-> LevelMask]
    /\ call = [name |-> "new"]
    /\ result = "Ok"
    /\ events = <<>>
    /\ sent = <<>>
    /\ write_result = "None"
    /\ old_grayscale_values = [i \in Channels |-> LevelMask]
    /\ old_dot_correction = [i \in Channels |-> 63]
    /\ last_level = [i \in Channels |-> 0]

\* TLC5940::new through from_pins, from_spi or from_spi_cs
Init ==
    /\ connector \in {"Pin", "Spi", "SpiSW"}
    /\ devices \in 1 .. MaxChips
    /\ (connector = "Pin" => devices = 1)
    /\ blank_pin \in {"Real", "Unconnected"}
    /\ dot_correction = [i \in Channels |-> 0]
    /\ grayscale_values = [i \in Channels |-> 0]
    /\ call = [name |-> "new"]
    /\ result = "Ok"
    /\ events = <<>>
    /\ sent = <<>>
    /\ write_result = "None"
    /\ old_grayscale_values = [i \in Channels |-> 0]
    /\ old_dot_correction = [i \in Channels |-> 0]
    /\ last_level = [i \in Channels |-> 0]

\* ------------------------------------------------------------- actions

Snapshot ==
    /\ old_grayscale_values' = grayscale_values
    /\ old_dot_correction' = dot_correction

SetLevel ==
    \E output \in OutputArgs, level \in LevelArgs :
        LET r == set_level(grayscale_values, output, level)
        IN /\ call' = [name |-> "set_level", output |-> output, level |-> level]
           /\ grayscale_values' = r.gray
           /\ last_level' = IF r.result = "Ok"
                            THEN [last_level EXCEPT ![output] = level]
                            ELSE last_level
           /\ result' = r.result
           /\ events' = <<>>
           /\ sent' = <<>>
           /\ write_result' = "None"
           /\ Snapshot
           /\ UNCHANGED << connector, devices, blank_pin, dot_correction >>

SetLevels ==
    \E levels \in LevelsArgs :
        LET r == set_levels(grayscale_values, levels)
        IN /\ call' = [name |-> "set_levels", levels |-> levels]
           /\ grayscale_values' = r.gray
           \* set_levels returns Ok when all 16 calls of set_level did
           /\ last_level' = IF r.result = "Ok" THEN levels ELSE last_level
           /\ result' = r.result
           /\ events' = <<>>
           /\ sent' = <<>>
           /\ write_result' = "None"
           /\ Snapshot
           /\ UNCHANGED << connector, devices, blank_pin, dot_correction >>

Blank ==
    \E is_blank \in BOOLEAN, fails \in BOOLEAN :
        LET r == blank(blank_pin, is_blank, fails)
        IN /\ call' = [name |-> "blank", is_blank |-> is_blank]
           /\ result' = r.result
           /\ events' = r.events
           /\ sent' = <<>>
           /\ write_result' = "None"
           /\ Snapshot
           /\ UNCHANGED << connector, devices, blank_pin, dot_correction, grayscale_values, last_level >>

Update_clears ==
    \E fault \in FaultArgs(connector, packed) :
        LET r == update(connector, fault)
        IN /\ call' = [name |-> "update", fault |-> fault]
           /\ result' = r.result
           /\ events' = r.events
           /\ sent' = r.sent
           /\ write_result' = r.write_result
           /\ Snapshot
           /\ grayscale_values' = [i \in Channels |-> 0]
           /\ UNCHANGED << connector, devices, blank_pin, dot_correction, last_level >>

Update ==
    \E fault \in FaultArgs(connector, packed) :
        LET r == update(connector, fault)
        IN /\ call' = [name |-> "update", fault |-> fault]
           /\ result' = r.result
           /\ events' = r.events
           /\ sent' = r.sent
           /\ write_result' = r.write_result
           /\ Snapshot
           /\ UNCHANGED << connector, devices, blank_pin, dot_correction, grayscale_values, last_level >>

SetDotCorrection_stores ==
    \E fault \in FaultArgs(connector, packed) :
        LET r == set_dot_correction(connector, fault)
        IN /\ call' = [name |-> "set_dot_correction", fault |-> fault]
           /\ result' = r.result
           /\ events' = r.events
           /\ sent' = r.sent
           /\ write_result' = r.write_result
           /\ Snapshot
           /\ dot_correction' = [i \in Channels |-> grayscale_values[i] % 64]
           /\ UNCHANGED << connector, devices, blank_pin, grayscale_values, last_level >>

SetDotCorrection ==
    \E fault \in FaultArgs(connector, packed) :
        LET r == set_dot_correction(connector, fault)
        IN /\ call' = [name |-> "set_dot_correction", fault |-> fault]
           /\ result' = r.result
           /\ events' = r.events
           /\ sent' = r.sent
           /\ write_result' = r.write_result
           /\ Snapshot
           /\ UNCHANGED << connector, devices, blank_pin, dot_correction, grayscale_values, last_level >>

\* a direct call of Connector::write_raw on the connector
WriteRaw ==
    \E data \in DataArgs :
        \E fault \in ConnFaultArgs(connector, data) :
            LET w == write_raw(connector, data, fault)
            IN /\ call' = [name |-> "write_raw", data |-> data, fault |-> fault]
               /\ result' = w.result
               /\ events' = w.events
               /\ sent' = << data >>
               /\ write_result' = w.result
               /\ Snapshot
               /\ UNCHANGED << connector, devices, blank_pin, dot_correction, grayscale_values, last_level >>

\* the driver: any sequence of calls of its public methods
Next ==
    \/ SetLevel
    \/ SetLevels
    \/ Blank
    \/ Update
    \/ SetDotCorrection

Spec == Init /\ [][Next]_vars

\* the connectors alone: any sequence of calls of write_raw
NextConn == WriteRaw

SpecConn == Init /\ [][NextConn]_vars

\* ============================================================== claims

ErrorKinds == {"NotConnected", "OutOfRange", "Spi", "Pin"}

\* bit j (from 0) of a byte buffer read as one MSB-first bit stream
StreamBit(buf, j) == (buf[(j \div 8) + 1] \div (2 ^ (7 - (j % 8)))) % 2

\* the w-bit MSB-first field that starts at bit `start` of the stream
RECURSIVE FieldVal(_, _, _)
FieldVal(buf, start, w) ==
    IF w = 0 THEN 0
    ELSE (2 * FieldVal(buf, start, w - 1)) + StreamBit(buf, start + w - 1)

\* buf holds, for each of n chips, the 16 values of arr (mod 2^w) as
\* consecutive w-bit MSB-first fields
HoldsFields(buf, n, w, arr) ==
    \A c \in 0 .. (n - 1) : \A i \in Channels :
        FieldVal(buf, (c * NumOutputs * w) + (i * w), w) = arr[i] % (2 ^ w)

\* C1: update hands the transport exactly one buffer, of 24 bytes per chip,
\* and unpacking it as 16 12-bit MSB-first fields per chip gives the
\* grayscale array.
C1_UpdateSendsPackedGrayscale ==
    (call.name = "update") =>
        /\ Len(sent) = 1
        /\ Len(sent[1]) = 24 * devices
        /\ HoldsFields(sent[1], devices, 12, grayscale_values)

\* the hardware call number p that a fault-free bit-banged send of `data`
\* is to make: chip-select low, then per byte and per bit from 7 down to 0
\* data := bit, clock high, clock low, then chip-select high
ExpectedPinCall(data, p) ==
    IF p = 1 THEN HwCall("cs", "set_low", <<>>, "Ok")
    ELSE IF p = 2 + (24 * Len(data)) THEN HwCall("cs", "set_high", <<>>, "Ok")
    ELSE LET q    == p - 2
             byte == data[(q \div 24) + 1]
             bit  == 7 - ((q % 24) \div 3)
             step == q % 3
         IN IF step = 0
            THEN HwCall("data",
                        IF (byte \div (2 ^ bit)) % 2 = 1 THEN "set_high" ELSE "set_low",
                        <<>>, "Ok")
            ELSE IF step = 1 THEN HwCall("sck", "set_high", <<>>, "Ok")
            ELSE HwCall("sck", "set_low", <<>>, "Ok")

\* the positions of the rising clock edges in a trace
RisingEdges(ev) == { k \in 1 .. Len(ev) : ev[k].dev = "sck" /\ ev[k].op = "set_high" }

\* the level of the data line when call number k of the trace is made
DataLevelAt(ev, k) ==
    LET ds == { j \in 1 .. (k - 1) : ev[j].dev = "data" }
    IN IF ds = {} THEN -1
       ELSE LET last == CHOOSE j \in ds : \A i \in ds : i <= j
            IN IF ev[last].op = "set_high" THEN 1 ELSE 0

\* bit number m (from 1) of `data` in MSB-first order
MsbFirstBit(data, m) ==
    (data[((m - 1) \div 8) + 1] \div (2 ^ (7 - ((m - 1) % 8)))) % 2

CountCalls(ev, dev, op) == Cardinality({ k \in 1 .. Len(ev) : ev[k].dev = dev /\ ev[k].op = op })

\* C2: a fault-free send through the bit-banged transport makes exactly the
\* calls chip-select low, per byte and per bit 7..0 (data := bit, clock high,
\* clock low), chip-select high; so there are 8 * len clock pulses, the data
\* line at the rising edges reads the input MSB first (1,0,1,1,0,0,1,0 for
\* 0b10110010), and chip-select goes low once and high once.
C2_PinTrace ==
    (call.name = "write_raw" /\ connector = "Pin" /\ call.fault = 0) =>
        /\ Len(events) = 2 + (24 * Len(call.data))
        /\ \A p \in 1 .. Len(events) : events[p] = ExpectedPinCall(call.data, p)
        /\ Cardinality(RisingEdges(events)) = 8 * Len(call.data)
        /\ \A k \in RisingEdges(events) :
              /\ events[k + 1].dev = "sck" /\ events[k + 1].op = "set_low"
              /\ DataLevelAt(events, k) =
                    MsbFirstBit(call.data, Cardinality({ j \in RisingEdges(events) : j <= k }))
        /\ (call.data = << 178 >> =>
              \A k \in RisingEdges(events) :
                  DataLevelAt(events, k) =
                     << 1, 0, 1, 1, 0, 0, 1, 0 >>[Cardinality({ j \in RisingEdges(events) : j <= k })])
        /\ CountCalls(events, "cs", "set_low") = 1
        /\ CountCalls(events, "cs", "set_high") = 1
        /\ events[1].dev = "cs" /\ events[Len(events)].dev = "cs"

C2_Witness ==
    /\ call.name = "write_raw" /\ connector = "Pin"
    /\ call.fault = 0 /\ call.data = << 178 >>
    /\ Len(events) = 26 /\ result = "Ok"

\* C3: set_level(i, v) with i in 0..15 returns success and leaves
\* grayscale[i] = v & 0x0FFF, the low 12 bits of v.
C3_SetLevelMasks ==
    (call.name = "set_level" /\ call.output \in Channels) =>
        /\ result = "Ok"
        /\ grayscale_values[call.output] = call.level % 4096

C3_Witness ==
    /\ call.name = "set_level" /\ call.output = 0 /\ call.level = 4096
    /\ old_grayscale_values[0] = 4095
    /\ grayscale_values[0] = 0 /\ result = "Ok"

\* C4: set_level(i, v) with i >= 16 returns OutOfRange and leaves both
\* channel arrays as they were.
C4_SetLevelOutOfRange ==
    (call.name = "set_level" /\ call.output >= 16) =>
        /\ result = "OutOfRange"
        /\ grayscale_values = old_grayscale_values
        /\ dot_correction = old_dot_correction

C4_Witness ==
    /\ call.name = "set_level" /\ call.output = 16 /\ call.level = 4095
    /\ result = "OutOfRange"
    /\ old_grayscale_values[0] # 0 /\ old_grayscale_values[15] # 0

\* C5: with the Unconnected pin as blank pin, blank(true) and blank(false)
\* return NotConnected, and touch neither the channel arrays nor the
\* transport.
C5_BlankUnconnected ==
    (call.name = "blank" /\ blank_pin = "Unconnected") =>
        /\ result = "NotConnected"
        /\ grayscale_values = old_grayscale_values
        /\ dot_correction = old_dot_correction
        /\ sent = <<>>

\* C6: when the transport's send fails during update / set_dot_correction the
\* operation returns the transport's error, and no driver operation drops
\* an error of a pin.
C6_ErrorsPropagate ==
    /\ (call.name \in {"update", "set_dot_correction"} /\ write_result \in ErrorKinds)
          => result = write_result
    /\ (call.name = "blank" /\ events[1].res # "Ok")
          => result \in ErrorKinds

\* C7: every public operation returns a result, success or one of the four
\* error kinds; none panics.
C7_OperationsReturn ==
    result \in ({"Ok"} \cup ErrorKinds)

\* the array after set_level(0, levels[0]), ..., set_level(n-1, levels[n-1])
RECURSIVE AfterSetLevelCalls(_, _, _)
AfterSetLevelCalls(gray, levels, n) ==
    IF n = 0 THEN gray
    ELSE set_level(AfterSetLevelCalls(gray, levels, n - 1), n - 1, levels[n - 1]).gray

\* C8: set_levels with all values <= 4095 returns success and leaves the
\* driver as the 16 calls set_level(0, values[0]) .. set_level(15,
\* values[15]) do: the grayscale array equals the input.
C8_SetLevelsAsSetLevel ==
    (call.name = "set_levels" /\ \A i \in Channels : call.levels[i] <= 4095) =>
        /\ result = "Ok"
        /\ grayscale_values = call.levels
        /\ grayscale_values = AfterSetLevelCalls(old_grayscale_values, call.levels, NumOutputs)
        /\ dot_correction = old_dot_correction

C8_Witness ==
    /\ call.name = "set_levels" /\ \A i \in Channels : call.levels[i] <= 4095
    /\ \A i \in Channels : old_grayscale_values[i] # call.levels[i]
    /\ \E i \in Channels : old_grayscale_values[i] # 0
    /\ grayscale_values = call.levels /\ result = "Ok"

\* C9: set_dot_correction hands the transport exactly one buffer, of 12
\* bytes per chip, holding the 16 dot-correction values masked to 6 bits as
\* consecutive 6-bit MSB-first fields.
C9_DotCorrectionSendsPacked ==
    (call.name = "set_dot_correction") =>
        /\ Len(sent) = 1
        /\ Len(sent[1]) = 12 * devices
        /\ HoldsFields(sent[1], devices, 6, dot_correction)

\* C10: blank(is_blank) makes exactly one call on the blank pin, set_high
\* when is_blank and set_low when not, changes neither channel array and
\* does not touch the transport.
C10_BlankDrivesPin ==
    (call.name = "blank") =>
        /\ Len(events) = 1
        /\ events[1].dev = "blank"
        /\ events[1].op = (IF call.is_blank THEN "set_high" ELSE "set_low")
        /\ grayscale_values = old_grayscale_values
        /\ dot_correction = old_dot_correction
        /\ sent = <<>> /\ write_result = "None"

C10_Witness ==
    /\ call.name = "blank" /\ call.is_blank
    /\ blank_pin = "Real"
    /\ events = << HwCall("blank", "set_high", <<>>, "Ok") >>
    /\ \E i \in Channels : grayscale_values[i] # 0

PushNames == {"update", "set_dot_correction"}

\* C11: update / set_dot_correction, whether the send succeeds or fails,
\* leaves the grayscale and dot-correction arrays as they were; and a push
\* that directly follows a push of the same kind hands the transport the
\* same buffers.
C11_PushKeepsArrays ==
    [][ (call'.name \in PushNames) =>
            /\ grayscale_values' = grayscale_values
            /\ dot_correction' = dot_correction
            /\ grayscale_values' = old_grayscale_values'
            /\ dot_correction' = old_dot_correction'
            /\ (call.name = call'.name => sent' = sent) ]_vars

C11_Witness ==
    /\ call.name = "update" /\ write_result \in ErrorKinds
    /\ Len(sent) = 1
    /\ grayscale_values[0] # 0 /\ grayscale_values[15] # 0
    /\ grayscale_values = old_grayscale_values

\* C12: right after construction through from_pins, from_spi or from_spi_cs
\* all 16 grayscale values and all 16 dot-correction values are 0.
C12_ConstructedZero ==
    (call.name = "new") =>
        /\ connector \in {"Pin", "Spi", "SpiSW"}
        /\ result = "Ok"
        /\ \A i \in Channels : grayscale_values[i] = 0 /\ dot_correction[i] = 0

C12_Witness ==
    /\ call.name = "new" /\ connector = "SpiSW" /\ devices = MaxChips
    /\ grayscale_values[15] = 0 /\ dot_correction[15] = 0

\* C13: in the bit-banged transport, when a pin call fails the send returns
\* the Pin error at once: the trace is the fault-free trace up to the failing
\* call, which is its last entry and its only failure, so nothing is retried,
\* no later bit is clocked and chip-select is not driven high.
C13_PinFaultAborts ==
    (call.name = "write_raw" /\ connector = "Pin" /\ call.fault > 0) =>
        /\ result = "Pin"
        /\ Len(events) = call.fault
        /\ \A p \in 1 .. (call.fault - 1) : events[p] = ExpectedPinCall(call.data, p)
        /\ events[call.fault] =
              [ExpectedPinCall(call.data, call.fault) EXCEPT !.res = "Err"]
        /\ Cardinality({ p \in 1 .. Len(events) : events[p].res # "Ok" }) = 1
        /\ (call.fault < 2 + (24 * Len(call.data)) => CountCalls(events, "cs", "set_high") = 0)
        /\ \A p \in 1 .. Len(events) :
              (events[p].dev = "cs" /\ events[p].op = "set_high") => events[p].res = "Err"

C13_Witness ==
    /\ call.name = "write_raw" /\ connector = "Pin"
    /\ call.data = << 178, 255 >> /\ call.fault = 28
    /\ result = "Pin" /\ Len(events) = 28
    /\ events[27] = HwCall("sck", "set_high", <<>>, "Ok")
    /\ events[28] = HwCall("sck", "set_low", <<>>, "Err")

\* C14: in the software-select serial transport a fault-free send makes
\* exactly chip-select low, one serial write of the whole payload,
\* chip-select high; and when chip-select low fails the send returns the Pin
\* error and the serial write is never made.
C14_SpiSWOrder ==
    (call.name = "write_raw" /\ connector = "SpiSW") =>
        /\ (call.fault = 0 =>
              /\ events = << HwCall("cs", "set_low", <<>>, "Ok"),
                             HwCall("spi", "write", call.data, "Ok"),
                             HwCall("cs", "set_high", <<>>, "Ok") >>
              /\ result = "Ok")
        /\ (call.fault = 1 =>
              /\ result = "Pin"
              /\ events = << HwCall("cs", "set_low", <<>>, "Err") >>
              /\ CountCalls(events, "spi", "write") = 0)

C14_Witness ==
    /\ call.name = "write_raw" /\ connector = "SpiSW"
    /\ call.fault = 1 /\ call.data = << 178, 255 >>
    /\ result = "Pin" /\ Len(events) = 1

\* C15: in the software-select serial transport, when chip-select was driven
\* low and the serial write then fails, the send returns the Spi error and
\* makes no further pin call, so chip-select is left low.
C15_SpiSWLeavesCsLow ==
    (call.name = "write_raw" /\ connector = "SpiSW" /\ call.fault = 2) =>
        /\ result = "Spi"
        /\ events = << HwCall("cs", "set_low", <<>>, "Ok"),
                       HwCall("spi", "write", call.data, "Err") >>
        /\ CountCalls(events, "cs", "set_high") = 0
        /\ \A p \in 1 .. Len(events) :
              events[p].res # "Ok" => \A q \in (p + 1) .. Len(events) : events[q].dev = "spi"

C15_Witness ==
    /\ call.name = "write_raw" /\ connector = "SpiSW"
    /\ call.fault = 2 /\ call.data = << 178, 255 >>
    /\ result = "Spi" /\ Len(events) = 2
    /\ events[1] = HwCall("cs", "set_low", <<>>, "Ok")

\* C16: the hardware-select serial transport's send makes exactly one call
\* of the Serial Writer, with the input bytes unchanged, and touches no pin;
\* it returns success iff that call succeeds and the Spi error otherwise.
C16_SpiDelegates ==
    (call.name = "write_raw" /\ connector = "Spi") =>
        /\ Len(events) = 1
        /\ events[1].dev = "spi" /\ events[1].op = "write"
        /\ events[1].data = call.data
        /\ (result = "Ok" <=> events[1].res = "Ok")
        /\ (result # "Ok" => result = "Spi")
        /\ (call.fault = 1 <=> result = "Spi")

C16_Witness ==
    /\ call.name = "write_raw" /\ connector = "Spi"
    /\ call.fault = 0 /\ call.data = << 178, 255 >>
    /\ events = << HwCall("spi", "write", << 178, 255 >>, "Ok") >>
    /\ result = "Ok"

\* C17: in every state reachable from construction by set_level, set_levels,
\* blank and the pushes, each of the 16 grayscale values is in 0..4095.
C17_GrayscaleIn12Bits ==
    \A i \in Channels : grayscale_values[i] \in 0 .. 4095

C17_Witness ==
    /\ call.name = "set_levels" /\ call.levels[0] = 65535
    /\ old_grayscale_values[0] = 0
    /\ grayscale_values[0] = 4095

\* C18: in every state reachable from construction by the public operations
\* all 16 dot-correction values are 0.
C18_DotCorrectionZero ==
    \A i \in Channels : dot_correction[i] = 0

C18_Witness ==
    /\ call.name = "set_dot_correction" /\ write_result = "Ok"
    /\ grayscale_values[0] # 0 /\ grayscale_values[15] # 0
    /\ dot_correction[0] = 0 /\ dot_correction[15] = 0

\* C19: a successful set_level(i, v) changes only grayscale[i]: every other
\* grayscale value and the whole dot-correction array keep their values and
\* no pin or transport call is made; so grayscale[j] always holds the masked
\* value of the latest accepted write to j, or 0 when there was none.
C19_SetLevelFrame ==
    /\ (call.name = "set_level" /\ result = "Ok") =>
          /\ \A j \in Channels \ {call.output} :
                grayscale_values[j] = old_grayscale_values[j]
          /\ dot_correction = old_dot_correction
          /\ events = <<>> /\ sent = <<>> /\ write_result = "None"
    /\ \A j \in Channels : grayscale_values[j] = last_level[j] % 4096

C19_Witness ==
    /\ call.name = "set_level" /\ result = "Ok"
    /\ call.output = 0 /\ call.level = 43981
    /\ grayscale_values[0] = 3021
    /\ old_grayscale_values[0] = 4095
    /\ last_level[15] = 4096 /\ grayscale_values[15] = 0
    /\ grayscale_values[7] = 1911

====
